---- MODULE Spec2Model ----
(***************************************************************************)
(* A model of mlflow_dock: the webhook dispatcher (main.py), the timestamp *)
(* freshness checker and the HMAC signature verifier (security.py), and    *)
(* the settings object they read (config.py).                              *)
(*                                                                         *)
(* Texts (Python str) are sequences of characters.  A character is a       *)
(* record [chr |-> c]; two further kinds of element stand for text that is *)
(* only ever produced and compared as a whole:                             *)
(*   [b64 |-> d]           the 44 ASCII characters base64.b64encode gives  *)
(*                         for the 32-byte digest d;                       *)
(*   [json |-> doc, ws |-> n]  one serialisation (n tells two layouts of   *)
(*                         the same document apart) of a JSON document.    *)
(* SHA-256 is taken to be collision free: a digest is the pair of the HMAC *)
(* key block and the message it was computed over.                         *)
(***************************************************************************)
EXTENDS Integers, Sequences, FiniteSets, TLC

VARIABLES
    settings,   \* main.py:19   the Settings instance loaded at import
    now,        \* time.time(), in seconds
    at,         \* security.py:19   the reading int(time.time()) the handler took
    pc,         \* where the request in flight is: idle / handler / responded
    req,        \* the request in flight (headers as received, raw body)
    event,      \* the WebhookEvent the framework parsed from the body
    resp,       \* the HTTP response of the request in flight
    steps,      \* what has run for the request in flight, in order
    tasks,      \* the coroutines given to asyncio.create_task, in order
    call,       \* a direct call of a function of security.py and its outcome
    job,        \* one run of build_and_push_docker in its worker process
    cfg,        \* config.py: the environment, the cached _settings, the calls made
    pool        \* build jobs running at the same time, each in its worker process

vars == <<settings, now, at, pc, req, event, resp, steps, tasks, call, job, cfg, pool>>

-----------------------------------------------------------------------------
(* Bounds *)

\* The clock runs from 0 to MaxTime.
MaxTime == 2
\* The configured MAX_TIMESTAMP_AGE of the modelled deployment.
MaxAgeEnv == 1
\* No more than MaxTasks coroutines are kept.
MaxTasks == 2

-----------------------------------------------------------------------------
(* Texts *)

Ch(c) == [chr |-> c]

\* The text whose characters are the strings of the tuple t.
Lit(t) == [i \in DOMAIN t |-> Ch(t[i])]

IsChr(e) == "chr" \in DOMAIN e

\* Characters outside ASCII (U+00E9 arrives as the header byte 0xE9).
NonAsciiChars == {"U+00E9"}

IsAsciiText(s) == \A i \in DOMAIN s : ~(IsChr(s[i]) /\ s[i].chr \in NonAsciiChars)

\* str.startswith
StartsWith(s, p) == Len(s) >= Len(p) /\ SubSeq(s, 1, Len(p)) = p

\* str.removeprefix
RemovePrefix(s, p) == IF StartsWith(s, p) THEN SubSeq(s, Len(p) + 1, Len(s)) ELSE s

\* str.encode("utf-8"): one byte per ASCII character, two for U+00E9; the
\* whole-text elements are ASCII and encode to themselves.
Utf8Char(e) ==
    IF IsChr(e) /\ e.chr = "U+00E9" THEN <<Ch("0xC3"), Ch("0xA9")>> ELSE <<e>>

RECURSIVE Utf8Encode(_)
Utf8Encode(s) == IF s = <<>> THEN <<>> ELSE Utf8Char(Head(s)) \o Utf8Encode(Tail(s))

Digits == <<"0", "1", "2", "3", "4", "5", "6", "7", "8", "9">>

IsDigit(e) == IsChr(e) /\ \E d \in DOMAIN Digits : Digits[d] = e.chr

DigitVal(e) == (CHOOSE d \in DOMAIN Digits : Digits[d] = e.chr) - 1

\* str(n) for n >= 0
RECURSIVE IntToStr(_)
IntToStr(n) ==
    IF n < 10 THEN <<Ch(Digits[n + 1])>>
    ELSE IntToStr(n \div 10) \o <<Ch(Digits[(n % 10) + 1])>>

IsSpace(e) == IsChr(e) /\ e.chr = " "

RECURSIVE LStrip(_)
LStrip(s) == IF s # <<>> /\ IsSpace(Head(s)) THEN LStrip(Tail(s)) ELSE s

RECURSIVE RStrip(_)
RStrip(s) ==
    IF s # <<>> /\ IsSpace(s[Len(s)]) THEN RStrip(SubSeq(s, 1, Len(s) - 1)) ELSE s

\* The digits of an int literal: decimal digits, single underscores between them.
IsDigitRun(s) ==
    /\ s # <<>>
    /\ \A i \in DOMAIN s : IsDigit(s[i]) \/ (IsChr(s[i]) /\ s[i].chr = "_")
    /\ IsDigit(s[1]) /\ IsDigit(s[Len(s)])
    /\ \A i \in 1..(Len(s) - 1) : IsDigit(s[i]) \/ IsDigit(s[i + 1])

RECURSIVE DigitRunVal(_, _)
DigitRunVal(s, acc) ==
    IF s = <<>> THEN acc
    ELSE IF IsDigit(Head(s)) THEN DigitRunVal(Tail(s), 10 * acc + DigitVal(Head(s)))
    ELSE DigitRunVal(Tail(s), acc)

\* int(s) for a str s: [ret |-> n], or [exc |-> "ValueError"].
PyInt(s) ==
    LET t == RStrip(LStrip(s))
        signed == t # <<>> /\ IsChr(t[1]) /\ t[1].chr \in {"+", "-"}
        body == IF signed THEN Tail(t) ELSE t
    IN  IF IsDigitRun(body)
        THEN [ret |-> IF signed /\ t[1].chr = "-" THEN 0 - DigitRunVal(body, 0)
                      ELSE DigitRunVal(body, 0)]
        ELSE [exc |-> "ValueError"]

Raised(r) == "exc" \in DOMAIN r

\* Python objects that may be None.
PyStr(s) == [str |-> s]
PyNone == [none |-> TRUE]
IsStr(x) == "str" \in DOMAIN x

-----------------------------------------------------------------------------
(* security.py *)

\* int(timestamp_str): a str is parsed, None raises TypeError.
IntOf(x) == IF IsStr(x) THEN PyInt(x.str) ELSE [exc |-> "TypeError"]

\* The freshness check without its upper bound on the age.
verify_timestamp_freshness_no_max(timestamp_str, max_age, current_timestamp) ==
    LET webhook_timestamp == IntOf(timestamp_str)
    IN  IF Raised(webhook_timestamp) THEN FALSE
        ELSE 0 <= current_timestamp - webhook_timestamp.ret

\* The freshness check with a strict upper bound on the age.
verify_timestamp_freshness_strict(timestamp_str, max_age, current_timestamp) ==
    LET webhook_timestamp == IntOf(timestamp_str)
    IN  IF Raised(webhook_timestamp) THEN FALSE
        ELSE LET age == current_timestamp - webhook_timestamp.ret
             IN  0 <= age /\ age < max_age

\* verify_timestamp_freshness(timestamp_str, max_age) at clock reading
\* current_timestamp.  A boolean: ValueError and TypeError are caught.
verify_timestamp_freshness(timestamp_str, max_age, current_timestamp) ==
    LET webhook_timestamp == IntOf(timestamp_str)
    IN  IF Raised(webhook_timestamp) THEN FALSE
        ELSE LET age == current_timestamp - webhook_timestamp.ret
             IN  0 <= age /\ age <= max_age

\* The block size of SHA-256 in bytes: hmac pads a key up to it with zero
\* bytes and replaces a longer key by its hash.
HmacBlockSize == 64

ZeroByte == Ch("NUL")

RECURSIVE StripZeros(_)
StripZeros(k) ==
    IF k # <<>> /\ k[Len(k)] = ZeroByte THEN StripZeros(SubSeq(k, 1, Len(k) - 1)) ELSE k

\* The key block K0 of RFC 2104, without its zero padding.
HmacKeyBlock(key) ==
    IF Len(key) > HmacBlockSize THEN <<[sha |-> key]>> ELSE StripZeros(key)

\* hmac.new(key, msg, hashlib.sha256).digest()
HmacSha256(key, msg) == [key |-> HmacKeyBlock(key), msg |-> msg]

\* base64.b64encode(digest).decode("utf-8")
B64Encode(digest) == <<[b64 |-> digest]>>

\* hmac.compare_digest on two str: TypeError unless both are ASCII.
CompareDigest(a, b) ==
    IF IsAsciiText(a) /\ IsAsciiText(b) THEN [ret |-> a = b] ELSE [exc |-> "TypeError"]

V1Prefix == Lit(<<"v", "1", ",">>)
Dot == Lit(<<".">>)

\* The signed content without the timestamp.
SignedContentNoTimestamp(payload, delivery_id, timestamp) ==
    delivery_id \o Dot \o payload

\* f"{delivery_id}.{timestamp}.{payload}"
SignedContent(payload, delivery_id, timestamp) ==
    delivery_id \o Dot \o timestamp \o Dot \o payload

\* No check of the version prefix.
HasAnyPrefix(signature) == TRUE

\* The check of the version prefix, security.py:41.
HasV1Prefix(signature) == StartsWith(signature, V1Prefix)

\* verify_mlflow_signature: [ret |-> boolean], or [exc |-> "TypeError"] when
\* compare_digest raises.
verify_mlflow_signature(payload, signature, secret, delivery_id, timestamp) ==
    IF ~HasV1Prefix(signature) THEN [ret |-> FALSE]
    ELSE LET signature_b64 == RemovePrefix(signature, V1Prefix)
             signed_content == SignedContent(payload, delivery_id, timestamp)
             expected_signature ==
                 HmacSha256(Utf8Encode(secret), Utf8Encode(signed_content))
             expected_signature_b64 == B64Encode(expected_signature)
         IN  CompareDigest(signature_b64, expected_signature_b64)

\* The sender's side (tests/conftest.py generate_signature): the header MLflow
\* sends for a delivery.
generate_signature(payload, secret, delivery_id, timestamp) ==
    LET signed_content ==
            delivery_id \o Lit(<<".">>) \o timestamp \o Lit(<<".">>) \o payload
        signature == HmacSha256(Utf8Encode(secret), Utf8Encode(signed_content))
    IN  Lit(<<"v", "1", ",">>) \o B64Encode(signature)

-----------------------------------------------------------------------------
(* config.py *)

\* The fields of the frozen dataclass Settings, as from_env fills them; the
\* secret is the deployment's WEBHOOK_SECRET.
SettingsOf(secret) ==
    [ webhook_secret    |-> secret,
      docker_registry   |-> Lit(<<"r", ".", "i", "o">>),
      docker_username   |-> Lit(<<"u">>),
      docker_password   |-> Lit(<<"p", "w">>),
      max_timestamp_age |-> MaxAgeEnv,
      port              |-> 8000 ]

\* obj.name on a dataclass instance: the field, or AttributeError.
GetAttr(obj, name) ==
    IF name \in DOMAIN obj THEN [ret |-> obj[name]] ELSE [exc |-> "AttributeError"]

-----------------------------------------------------------------------------
(* main.py: the request body and its validation by the framework *)

\* json.loads of the raw body: the document of a serialisation, else an error.
JsonLoads(body) ==
    IF Len(body) = 1 /\ "json" \in DOMAIN body[1]
    THEN [ret |-> body[1].json] ELSE [exc |-> "JSONDecodeError"]

\* The keys the two payload TypedDicts of mlflow.webhooks.types require.
CreatedPayloadKeys == {"name", "source", "version"}
AliasCreatedPayloadKeys == {"name", "alias", "version"}

\* Validation of a document against WebhookEvent, the union of the two event
\* models: the Literal entity and action must match and data must hold the
\* payload's keys.
ValidateEvent(doc) ==
    IF /\ doc.entity = "model_version" /\ doc.action = "created"
       /\ CreatedPayloadKeys \subseteq DOMAIN doc.data
    THEN [ret |-> [class |-> "ModelVersionCreatedEvent", entity |-> doc.entity,
                   action |-> doc.action, data |-> doc.data]]
    ELSE IF /\ doc.entity = "model_version_alias" /\ doc.action = "created"
            /\ AliasCreatedPayloadKeys \subseteq DOMAIN doc.data
    THEN [ret |-> [class |-> "ModelVersionAliasCreatedEvent", entity |-> doc.entity,
                   action |-> doc.action, data |-> doc.data]]
    ELSE [exc |-> "ValidationError"]

\* The parameters of handle_webhook as the framework resolves them before it
\* calls the handler: the body parameter `event` and the three required
\* Header() parameters.  Any failure is a RequestValidationError (422).
ResolveParams(rq) ==
    LET doc == JsonLoads(rq.body)
        ev == IF Raised(doc) THEN doc ELSE ValidateEvent(doc.ret)
    IN  IF /\ IsStr(rq.x_mlflow_signature)
           /\ IsStr(rq.x_mlflow_delivery_id)
           /\ IsStr(rq.x_mlflow_timestamp)
           /\ ~Raised(ev)
        THEN ev ELSE [exc |-> "RequestValidationError"]

-----------------------------------------------------------------------------
(* main.py: handle_webhook *)

HTTPException(status_code, detail) ==
    [status |-> status_code, kind |-> "detail", text |-> detail]

\* What the server answers when the handler raises anything else.
InternalServerError == [status |-> 500, kind |-> "error", text |-> "Internal Server Error"]

\* return {"status": "submitted"} under status_code=202
Submitted == [status |-> 202, kind |-> "status", text |-> "submitted"]

UnprocessableEntity == [status |-> 422, kind |-> "detail", text |-> "validation error"]

\* The outcome of one run of the handler: the response, the coroutines given to
\* asyncio.create_task, and what ran.
Outcome(response, created, ran) == [resp |-> response, created |-> created, ran |-> ran]

\* The coroutine build_and_push_docker_async(...) as create_task receives it.
BuildTask(model_uri, model_name, version, registry, username, password) ==
    [ model_uri |-> model_uri, model_name |-> model_name, version |-> version,
      docker_registry |-> registry, docker_username |-> username,
      docker_registry_password |-> password, state |-> "pending" ]

ModelsPrefix == Lit(<<"m", "o", "d", "e", "l", "s", ":", "/">>)
At == Lit(<<"@">>)

\* The attribute of settings that handle_webhook passes as `secret`, main.py:76.
SecretAttr == "mlflow_webhook_secret"
\* The attribute it passes as docker_registry_password, main.py:93 and 107.
PasswordAttr == "docker_registry_password"

\* The match statement, main.py:84-114; ran is what ran before it.
Dispatch(st, ev, ran) ==
    LET registry == GetAttr(st, "docker_registry")
        username == GetAttr(st, "docker_username")
        password == GetAttr(st, PasswordAttr)
        data == ev.data
    IN  IF ev.class = "ModelVersionCreatedEvent"
        THEN IF Raised(registry) \/ Raised(username) \/ Raised(password)
             THEN Outcome(InternalServerError, <<>>, ran \o <<"match">>)
             ELSE Outcome(Submitted,
                          <<BuildTask(data.source, data.name, data.version,
                                      registry.ret, username.ret, password.ret)>>,
                          ran \o <<"match", "create_task">>)
        ELSE IF ev.class = "ModelVersionAliasCreatedEvent"
        THEN IF Raised(registry) \/ Raised(username) \/ Raised(password)
             THEN Outcome(InternalServerError, <<>>, ran \o <<"match">>)
             ELSE Outcome(Submitted,
                          <<BuildTask(ModelsPrefix \o data.name \o At \o data.alias,
                                      data.name, data.alias,
                                      registry.ret, username.ret, password.ret)>>,
                          ran \o <<"match", "create_task">>)
        ELSE Outcome(Submitted, <<>>, ran \o <<"match">>)

\* Only the signature header is checked for being empty.
MissingHeaderSignatureOnly(rq) ==
    IF rq.x_mlflow_signature.str = <<>> THEN "Missing signature header" ELSE "none"

\* The three checks for an empty header, main.py:60-65.
MissingHeader(rq) ==
    IF rq.x_mlflow_signature.str = <<>> THEN "Missing signature header"
    ELSE IF rq.x_mlflow_delivery_id.str = <<>> THEN "Missing delivery ID header"
    ELSE IF rq.x_mlflow_timestamp.str = <<>> THEN "Missing timestamp header"
    ELSE "none"

\* The freshness check as the handler calls it, main.py:67.
IsFresh(st, rq, t) ==
    verify_timestamp_freshness(rq.x_mlflow_timestamp, st.max_timestamp_age, t)

\* The handler verifying the signature before the timestamp's freshness.
handle_webhook_signature_first(st, rq, ev, t) ==
    IF MissingHeader(rq) # "none"
    THEN Outcome(HTTPException(400, MissingHeader(rq)), <<>>, <<>>)
    ELSE LET secret == GetAttr(st, SecretAttr)
         IN  IF Raised(secret)
             THEN Outcome(InternalServerError, <<>>, <<>>)
             ELSE LET ok == verify_mlflow_signature(rq.body, rq.x_mlflow_signature.str,
                                  secret.ret, rq.x_mlflow_delivery_id.str,
                                  rq.x_mlflow_timestamp.str)
                      ran == <<"signature", "freshness">>
                  IN  IF Raised(ok) THEN Outcome(InternalServerError, <<>>, <<"signature">>)
                      ELSE IF ~ok.ret
                      THEN Outcome(HTTPException(401, "Invalid signature"), <<>>,
                                   <<"signature">>)
                      ELSE IF ~IsFresh(st, rq, t)
                      THEN Outcome(HTTPException(400,
                                       "Timestamp is too old or invalid (possible replay attack)"),
                                   <<>>, ran)
                      ELSE Dispatch(st, ev, ran)

\* The body of handle_webhook, main.py:57-114, for a request whose parameters
\* the framework has resolved, at clock reading t.
handle_webhook(st, rq, ev, t) ==
    IF MissingHeader(rq) # "none"
    THEN Outcome(HTTPException(400, MissingHeader(rq)), <<>>, <<>>)
    ELSE IF ~IsFresh(st, rq, t)
    THEN Outcome(HTTPException(400, "Timestamp is too old or invalid (possible replay attack)"),
                 <<>>, <<"freshness">>)
    ELSE LET secret == GetAttr(st, SecretAttr)
         IN  IF Raised(secret)
             THEN Outcome(InternalServerError, <<>>, <<"freshness">>)
             ELSE LET ok == verify_mlflow_signature(rq.body, rq.x_mlflow_signature.str,
                                  secret.ret, rq.x_mlflow_delivery_id.str,
                                  rq.x_mlflow_timestamp.str)
                      ran == <<"freshness", "signature">>
                  IN  IF Raised(ok) THEN Outcome(InternalServerError, <<>>, ran)
                      ELSE IF ~ok.ret
                      THEN Outcome(HTTPException(401, "Invalid signature"), <<>>, ran)
                      ELSE Dispatch(st, ev, ran)

-----------------------------------------------------------------------------
(* Inputs *)

\* WEBHOOK_SECRET values of a deployment (an environment variable holds no NUL).
EnvSecrets == {Lit(<<"s">>), Lit(<<"k">>)}

ModelName == Lit(<<"m">>)
Version == Lit(<<"1">>)
Alias == Lit(<<"p">>)
Source == Lit(<<"s", "3", ":", "/", "m">>)

\* JSON documents a sender may post.
CreatedDoc ==
    [entity |-> "model_version", action |-> "created",
     data |-> [name |-> ModelName, source |-> Source, version |-> Version]]
AliasCreatedDoc ==
    [entity |-> "model_version_alias", action |-> "created",
     data |-> [name |-> ModelName, alias |-> Alias, version |-> Version]]
TagSetDoc ==
    [entity |-> "model_version_tag", action |-> "set",
     data |-> [name |-> ModelName, version |-> Version,
               key |-> Lit(<<"k">>), value |-> Lit(<<"v">>)]]
UnknownDoc ==
    [entity |-> "unknown_entity", action |-> "unknown_action",
     data |-> [name |-> ModelName]]
NoSourceDoc ==
    [entity |-> "model_version", action |-> "created",
     data |-> [name |-> ModelName, version |-> Version]]

Docs == {CreatedDoc, AliasCreatedDoc, TagSetDoc, UnknownDoc, NoSourceDoc}

\* json.dumps(doc), and the same document laid out differently.
JsonText(doc) == <<[json |-> doc, ws |-> 0]>>
JsonTextSpaced(doc) == <<[json |-> doc, ws |-> 1]>>

\* Raw request bodies: the documents, and text that is not JSON.
Bodies == {JsonText(d) : d \in Docs} \cup {Lit(<<"{">>)}

\* A header as the framework hands it on: None when the request has none.
HeaderText(h) == IF IsStr(h) THEN h.str ELSE <<>>

DeliveryIdHeaders == {PyNone, PyStr(<<>>), PyStr(Lit(<<"d">>))}

TimestampHeaders ==
    {PyNone, PyStr(<<>>), PyStr(Lit(<<"x">>))}
        \cup {PyStr(IntToStr(t)) : t \in 0..(MaxTime + 1)}

Bang == Lit(<<"!">>)
EAcute == Lit(<<"U+00E9">>)
V2Prefix == Lit(<<"v", "2", ",">>)

\* The other layout of a body, when it is JSON.
Relaid(body) ==
    IF Raised(JsonLoads(body)) THEN body \o Lit(<<" ">>)
    ELSE JsonTextSpaced(body[1].json)

\* Signature headers a sender may attach to (body, delivery id, timestamp):
\* none, empty, signed with either secret, signed over another layout of the
\* body, the right digest under another or no version prefix, and text that
\* is no digest.
SignatureHeaders(body, did, ts) ==
    LET d == HeaderText(did)
        t == HeaderText(ts)
    IN  {PyNone, PyStr(<<>>)}
        \cup {PyStr(generate_signature(body, s, d, t)) : s \in EnvSecrets}
        \cup {PyStr(generate_signature(Relaid(body), s, d, t)) : s \in EnvSecrets}
        \cup {PyStr(V2Prefix \o RemovePrefix(generate_signature(body, s, d, t), V1Prefix))
                 : s \in EnvSecrets}
        \cup {PyStr(RemovePrefix(generate_signature(body, s, d, t), V1Prefix))
                 : s \in EnvSecrets}
        \cup {PyStr(V1Prefix \o Bang), PyStr(V1Prefix \o EAcute)}

Requests ==
    UNION { UNION { UNION { { [ x_mlflow_signature |-> sg, x_mlflow_delivery_id |-> did,
                                x_mlflow_timestamp |-> ts, body |-> b ]
                              : sg \in SignatureHeaders(b, did, ts) }
                            : ts \in TimestampHeaders }
                    : did \in DeliveryIdHeaders }
            : b \in Bodies }

-----------------------------------------------------------------------------
(* The dispatcher *)

NoReq == [none |-> TRUE]
NoEvent == [none |-> TRUE]
NoResp == [none |-> TRUE]
NoCall == [none |-> TRUE]
NoJob == [none |-> TRUE]
NoCfg == [none |-> TRUE]
NoPool == [none |-> TRUE]

Init ==
    /\ settings \in {SettingsOf(s) : s \in EnvSecrets}
    /\ now \in 0..MaxTime
    /\ at = now
    /\ pc = "idle"
    /\ req = NoReq
    /\ event = NoEvent
    /\ resp = NoResp
    /\ steps = <<>>
    /\ tasks = <<>>
    /\ call = NoCall
    /\ job = NoJob
    /\ cfg = NoCfg
    /\ pool = NoPool

\* time.time() advances.
Tick ==
    /\ now < MaxTime
    /\ now' = now + 1
    /\ UNCHANGED <<settings, at, pc, req, event, resp, steps, tasks, call, job, cfg, pool>>

\* POST /webhook arrives: the framework resolves the handler's parameters and
\* answers 422 itself when it cannot, main.py:47-54.
Receive(rq) ==
    /\ pc = "idle"
    /\ Len(tasks) < MaxTasks
    /\ req' = rq
    /\ at' = now
    /\ LET ev == ResolveParams(rq)
       IN  IF Raised(ev)
           THEN /\ pc' = "responded"
                /\ event' = NoEvent
                /\ resp' = UnprocessableEntity
                /\ steps' = <<"resolve">>
           ELSE /\ pc' = "handler"
                /\ event' = ev.ret
                /\ resp' = NoResp
                /\ steps' = <<"resolve">>
    /\ UNCHANGED <<settings, now, tasks, call, job, cfg, pool>>

\* The handler runs to its return or to the exception that ends it; there is no
\* await in it that lets another request or task in between.
HandleWebhook ==
    /\ pc = "handler"
    /\ LET out == handle_webhook(settings, req, event, now)
       IN  /\ resp' = out.resp
           /\ tasks' = tasks \o out.created
           /\ steps' = steps \o out.ran
    /\ at' = now
    /\ pc' = "responded"
    /\ UNCHANGED <<settings, now, req, event, call, job, cfg, pool>>

\* The response is sent and the request is over.
Respond ==
    /\ pc = "responded"
    /\ pc' = "idle"
    /\ req' = NoReq
    /\ event' = NoEvent
    /\ resp' = NoResp
    /\ steps' = <<>>
    /\ at' = now
    /\ UNCHANGED <<settings, now, tasks, call, job, cfg, pool>>

Next ==
    \/ Tick
    \/ \E rq \in Requests : Receive(rq)
    \/ HandleWebhook
    \/ Respond

Spec == Init /\ [][Next]_vars

-----------------------------------------------------------------------------
(* Direct calls of verify_mlflow_signature *)

\* Secrets, delivery ids, timestamps and payloads of a direct call.  A str may
\* hold NUL; "d.1" with "1" and "d" with "1.1" give one signed content.
CallSecrets == {Lit(<<"s">>), Lit(<<"s", "NUL">>), Lit(<<"k">>)}
CallDeliveryIds == {Lit(<<"d">>), Lit(<<"d", ".", "1">>), Lit(<<"e">>)}
CallTimestamps == {Lit(<<"1">>), Lit(<<"1", ".", "1">>), Lit(<<"2">>)}
CallPayloads == {<<>>, JsonText(CreatedDoc), JsonTextSpaced(CreatedDoc)}

Deliveries ==
    [payload : CallPayloads, secret : CallSecrets,
     delivery_id : CallDeliveryIds, timestamp : CallTimestamps]

\* The header a sender makes for delivery m.
SignatureOf(m) == generate_signature(m.payload, m.secret, m.delivery_id, m.timestamp)

\* Text after "v1," that is no base64 of a digest: characters outside the
\* base64 alphabet, outside ASCII, nothing at all, and too short a text.
Garbage == {Bang, EAcute, <<>>, Lit(<<"A", "A", "=", "=">>), Lit(<<"A">>) \o EAcute}

\* The headers tried against delivery m: every sender's header, the right
\* digest under other prefixes, and garbage.
CallSignatures(m) ==
    {SignatureOf(x) : x \in Deliveries}
        \cup {p \o RemovePrefix(SignatureOf(m), V1Prefix)
                 : p \in {<<>>, V2Prefix, Lit(<<"V", "1", ",">>), Lit(<<"v", "1">>)}}
        \cup {V1Prefix \o g : g \in Garbage}
        \cup Garbage

NotCalled == [none |-> TRUE]

InitVerify ==
    /\ settings = SettingsOf(Lit(<<"s">>))
    /\ now = 0
    /\ at = 0
    /\ pc = "idle"
    /\ req = NoReq
    /\ event = NoEvent
    /\ resp = NoResp
    /\ steps = <<>>
    /\ tasks = <<>>
    /\ job = NoJob
    /\ cfg = NoCfg
    /\ pool = NoPool
    /\ \E m \in Deliveries : \E sg \in CallSignatures(m) :
           call = [fn |-> "verify_mlflow_signature", args |-> m, signature |-> sg,
                   out |-> NotCalled]

\* verify_mlflow_signature(payload, signature, secret, delivery_id, timestamp)
VerifyCall ==
    /\ call.out = NotCalled
    /\ call' = [call EXCEPT !.out =
                   verify_mlflow_signature(call.args.payload, call.signature,
                       call.args.secret, call.args.delivery_id, call.args.timestamp)]
    /\ UNCHANGED <<settings, now, at, pc, req, event, resp, steps, tasks, job, cfg, pool>>

NextVerify == VerifyCall

SpecVerify == InitVerify /\ [][NextVerify]_vars

-----------------------------------------------------------------------------
(* Direct calls of verify_timestamp_freshness *)

\* The largest max_age of a direct call.
MaxAgeArg == 2

\* Timestamp arguments with the integer they are the text of: str(t) for the
\* clock readings around now and beyond, and other texts int() accepts.
IntTexts ==
    {[text |-> PyStr(IntToStr(t)), int |-> t] : t \in 0..(MaxTime + 1)}
        \cup { [text |-> PyStr(Lit(<<" ", "1">>)), int |-> 1],
               [text |-> PyStr(Lit(<<"+", "1">>)), int |-> 1],
               [text |-> PyStr(Lit(<<"-", "1">>)), int |-> 0 - 1],
               [text |-> PyStr(Lit(<<"0", "_", "2">>)), int |-> 2],
               [text |-> PyStr(Lit(<<"1", "0">>)), int |-> 10] }

\* Timestamp arguments that are the text of no integer, and None.
NonIntTexts ==
    { PyStr(<<>>), PyStr(Lit(<<"x">>)), PyStr(Lit(<<"1", ".", "5">>)),
      PyStr(Lit(<<"_", "1">>)), PyStr(Lit(<<"1", " ", "1">>)),
      PyStr(Lit(<<"-">>)), PyNone }

InitFresh ==
    /\ settings = SettingsOf(Lit(<<"s">>))
    /\ now \in 0..MaxTime
    /\ at = now
    /\ pc = "idle"
    /\ req = NoReq
    /\ event = NoEvent
    /\ resp = NoResp
    /\ steps = <<>>
    /\ tasks = <<>>
    /\ job = NoJob
    /\ cfg = NoCfg
    /\ pool = NoPool
    /\ \E max_age \in 0..MaxAgeArg :
           \/ \E it \in IntTexts :
                  call = [fn |-> "verify_timestamp_freshness", timestamp_str |-> it.text,
                          max_age |-> max_age, int |-> [ret |-> it.int],
                          out |-> NotCalled]
           \/ \E nt \in NonIntTexts :
                  call = [fn |-> "verify_timestamp_freshness", timestamp_str |-> nt,
                          max_age |-> max_age, int |-> [exc |-> "not an integer"],
                          out |-> NotCalled]

\* verify_timestamp_freshness(timestamp_str, max_age), the clock reading now.
FreshCall ==
    /\ call.out = NotCalled
    /\ call' = [call EXCEPT !.out =
                   [ret |-> verify_timestamp_freshness(call.timestamp_str,
                                                       call.max_age, now)]]
    /\ UNCHANGED <<settings, now, at, pc, req, event, resp, steps, tasks, job, cfg, pool>>

NextFresh == FreshCall

SpecFresh == InitFresh /\ [][NextFresh]_vars

-----------------------------------------------------------------------------
(* docker_service.py: exceptions *)

\* Fixed fragments of messages are written as one token of text.
Text(s) == <<Ch(s)>>

\* The classes an exception of the given class is an instance of.
Bases(cls) ==
    CASE cls = "APIError" -> {"APIError", "DockerException", "Exception", "BaseException"}
      [] cls = "NotFound" ->
             {"NotFound", "APIError", "DockerException", "Exception", "BaseException"}
      [] cls = "DockerException" -> {"DockerException", "Exception", "BaseException"}
      [] cls = "KeyboardInterrupt" -> {"KeyboardInterrupt", "BaseException"}
      [] cls = "PermissionError" ->
             {"PermissionError", "OSError", "Exception", "BaseException"}
      [] OTHER -> {cls, "Exception", "BaseException"}

\* An exception of class cls whose str() is msg, raised while handling
\* `cause` (None when raised outside a handler).
Exc(cls, msg, cause) == [exc |-> cls, msg |-> msg, cause |-> cause]

NoCause == [none |-> TRUE]

IsInstance(e, cls) == cls \in Bases(e.exc)

\* class DockerBuildError(Exception)
DockerBuildError(msg, cause) == Exc("DockerBuildError", msg, cause)

\* class DockerPushError(Exception)
DockerPushError(msg) == Exc("DockerPushError", msg, NoCause)

-----------------------------------------------------------------------------
(* docker_service.py: the builder *)

\* The builder letting the packaging call's error through as it is.
_build_docker_image_passthrough(model_uri, image_name, packaging) == packaging

\* _build_docker_image(model_uri, image_name), `packaging` being what
\* mlflow.models.build_docker(model_uri=..., name=...) returned or raised.
_build_docker_image(model_uri, image_name, packaging) ==
    IF ~Raised(packaging) THEN packaging
    ELSE IF IsInstance(packaging, "Exception")
         THEN DockerBuildError(Text("Failed to build image ") \o image_name
                                   \o Text(": ") \o packaging.msg,
                               packaging)
         ELSE packaging

-----------------------------------------------------------------------------
(* docker_service.py: the pusher and its retry policy *)

\* stop=stop_after_attempt(3)
StopAfterAttempt == 3

\* wait=wait_exponential(multiplier=1, min=4, max=60)
WaitMultiplier == 1
WaitMin == 4
WaitMax == 60

Max(a, b) == IF a >= b THEN a ELSE b
Min(a, b) == IF a <= b THEN a ELSE b

RECURSIVE Pow2(_)
Pow2(n) == IF n = 0 THEN 1 ELSE 2 * Pow2(n - 1)

\* The seconds slept after the failed attempt number attempt_number:
\* max(min, min(multiplier * 2 ** (attempt_number - 1), max)).
WaitExponential(attempt_number) ==
    Max(Max(0, WaitMin), Min(WaitMultiplier * Pow2(attempt_number - 1), WaitMax))

\* A policy that retries only the pusher's own error.
ShouldRetryPushErrorOnly(e) == IsInstance(e, "DockerPushError")

\* A policy that retries whatever the attempt raised.
ShouldRetryAnything(e) == TRUE

\* retry=retry_if_exception_type((docker.errors.APIError, DockerPushError))
ShouldRetry(e) == IsInstance(e, "APIError") \/ IsInstance(e, "DockerPushError")

\* What leaves the retry loop wrapped in tenacity's RetryError.
RaiseRetryError(last) == Exc("RetryError", Text("RetryError"), last)

\* reraise=True: the exception of the last attempt leaves the retry loop.
Reraise(last) == last

\* A log record of the module's logger.
LogRecord(level, msg) == [level |-> level, msg |-> msg]

\* The loop reading the stream to its end and raising the first error then.
RECURSIVE ConsumeStreamToEnd(_, _, _)
ConsumeStreamToEnd(stream, i, logged) ==
    IF i > Len(stream)
    THEN LET errors == SelectSeq(stream, LAMBDA line : "error" \in DOMAIN line)
         IN  [ logged |-> logged, consumed |-> i - 1,
               out |-> IF errors = <<>> THEN [ret |-> PyNone]
                       ELSE DockerPushError(errors[1].error) ]
    ELSE LET line == stream[i]
             l1 == IF "status" \in DOMAIN line
                   THEN Append(logged, LogRecord("INFO", Text("Push status: ") \o line.status))
                   ELSE logged
         IN  ConsumeStreamToEnd(stream, i + 1,
                 IF "error" \in DOMAIN line
                 THEN Append(l1, LogRecord("ERROR", Text("Push error: ") \o line.error))
                 ELSE l1)

\* The body of the loop over the progress events, from event number i: the
\* records logged, the events consumed and the error raised, if any.
RECURSIVE ConsumeStream(_, _, _)
ConsumeStream(stream, i, logged) ==
    IF i > Len(stream) THEN [logged |-> logged, consumed |-> i - 1, out |-> [ret |-> PyNone]]
    ELSE LET line == stream[i]
             l1 == IF "status" \in DOMAIN line
                   THEN Append(logged, LogRecord("INFO", Text("Push status: ") \o line.status))
                   ELSE logged
         IN  IF "error" \in DOMAIN line
             THEN [ logged   |-> Append(l1, LogRecord("ERROR",
                                                     Text("Push error: ") \o line.error)),
                    consumed |-> i,
                    out      |-> DockerPushError(line.error) ]
             ELSE ConsumeStream(stream, i + 1, l1)

\* The credentials client.images.push is given: auth_config when it is truthy.
PushKwargs(auth_config) ==
    IF auth_config = PyNone THEN [stream |-> TRUE, decode |-> TRUE]
    ELSE [stream |-> TRUE, decode |-> TRUE, auth_config |-> auth_config]

\* One attempt of _push_docker_image(image_name, auth_config): `daemon` is
\* what docker.from_env() and client.images.push(...) do in this attempt,
\* [from_env |-> an exception], [push |-> an exception] or
\* [stream |-> the progress events].
PushAttempt(image_name, auth_config, daemon) ==
    LET l0 == <<LogRecord("INFO", Text("Pushing ") \o image_name \o Text(" to registry"))>>
        l1 == IF auth_config = PyNone THEN l0
              ELSE Append(l0, LogRecord("INFO",
                                        Text("Using provided registry credentials for push")))
        pushed == [name |-> image_name, kwargs |-> PushKwargs(auth_config)]
    IN  IF "from_env" \in DOMAIN daemon
        THEN [logged |-> l0, calls |-> <<>>, logins |-> 0, consumed |-> 0,
              out |-> daemon.from_env]
        ELSE IF "push" \in DOMAIN daemon
        THEN [logged |-> l1, calls |-> <<pushed>>, logins |-> 0, consumed |-> 0,
              out |-> daemon.push]
        ELSE LET c == ConsumeStream(daemon.stream, 1, l1)
             IN  [ logged   |-> IF Raised(c.out) THEN c.logged
                                ELSE Append(c.logged,
                                            LogRecord("INFO", Text("Successfully pushed ")
                                                \o image_name \o Text(" to registry"))),
                   calls    |-> <<pushed>>,
                   logins   |-> 0,
                   consumed |-> c.consumed,
                   out      |-> c.out ]

-----------------------------------------------------------------------------
(* docker_service.py: the orchestrator *)

BUILD_LOG_DIR == Text("/var/log/mlflow-dock")

\* str.replace(old, new) for a one-character old.
RECURSIVE Replace(_, _, _)
Replace(s, old, new) ==
    IF s = <<>> THEN <<>>
    ELSE (IF Head(s) = Ch(old) THEN <<Ch(new)>> ELSE <<Head(s)>>)
             \o Replace(Tail(s), old, new)

\* The log path with the version put into the name as it is.
_get_build_log_path_raw_version(model_name, version, timestamp) ==
    LET safe_model_name == Replace(Replace(model_name, "/", "_"), ":", "_")
    IN  [ parent |-> BUILD_LOG_DIR,
          name   |-> safe_model_name \o Lit(<<"_">>) \o version \o Lit(<<"_">>)
                         \o timestamp \o Text(".log") ]

\* The path _get_build_log_path(model_name, version) returns when
\* datetime.now().strftime("%Y%m%d_%H%M%S") is `timestamp`.
_get_build_log_path(model_name, version, timestamp) ==
    LET safe_model_name == Replace(Replace(model_name, "/", "_"), ":", "_")
        safe_version == Replace(Replace(version, "/", "_"), ":", "_")
    IN  [ parent |-> BUILD_LOG_DIR,
          name   |-> safe_model_name \o Lit(<<"_">>) \o safe_version \o Lit(<<"_">>)
                         \o timestamp \o Text(".log") ]

\* image_name = f"{docker_registry}/{model_name}:{version}"
ImageName(docker_registry, model_name, version) ==
    docker_registry \o Lit(<<"/">>) \o model_name \o Lit(<<":">>) \o version

\* auth_config = {"username": docker_username, "password": docker_registry_password}
AuthConfig(docker_username, docker_registry_password) ==
    [username |-> docker_username, password |-> docker_registry_password]

\* The line the except clause appends to the log file.
FailedLine(e) == Text("\n\nFAILED: ") \o e.msg \o Text("\n")

\* Where the orchestrator goes on always to the push step.
AfterBuildAlwaysPush(built) == "push"

\* Where the orchestrator goes on after the build step: the push step follows
\* a build that returned, the inner finally one that raised.
AfterBuild(built) == IF Raised(built) THEN "restore" ELSE "push"


\* No exception is in flight.
NoExc == [none |-> TRUE]

\* The orchestrator without its except clause.
AfterRestoreNoAppend(pending) == "close"

\* Where the orchestrator goes on after the inner finally: an Exception in
\* flight enters the except clause, anything else goes to the outer finally.
AfterRestore(pending) ==
    IF pending # NoExc /\ IsInstance(pending, "Exception") THEN "append" ELSE "close"

\* The retry decorator put on the build and the push together.
RetryFromBuild == "build"

\* The step a retry starts again from: @retry decorates _push_docker_image.
RetryFrom == "push"

-----------------------------------------------------------------------------
(* One run of build_and_push_docker, step by step *)

\* Jobs as handle_webhook would submit them, and jobs short of a credential.
JobModelNames == {ModelName, Lit(<<"a", "/", "b">>)}
JobCredentials ==
    { [username |-> PyStr(Lit(<<"u">>)), password |-> PyStr(Lit(<<"p", "w">>))],
      [username |-> PyStr(Lit(<<"u">>)), password |-> PyNone],
      [username |-> PyNone, password |-> PyStr(Lit(<<"p", "w">>))] }
JobRegistry == Lit(<<"r", ".", "i", "o">>)

JobArgs ==
    { [ model_uri |-> ModelsPrefix \o n \o Lit(<<"/">>) \o Version,
        model_name |-> n, version |-> Version, docker_registry |-> JobRegistry,
        docker_username |-> c.username, docker_registry_password |-> c.password ]
      : n \in JobModelNames, c \in JobCredentials }

\* What mlflow.models.build_docker may do.
PackagingOutcomes ==
    { [ret |-> PyNone],
      [ret |-> PyStr(Text("build-result"))],
      Exc("Exception", Text("Build failed"), NoCause),
      Exc("MlflowException", Text("no such model"), NoCause),
      Exc("APIError", Text("daemon down"), NoCause),
      Exc("KeyboardInterrupt", <<>>, NoCause) }

\* What the docker daemon and the registry may do in one push attempt.
Pushing == [status |-> Text("Pushing")]
Pushed == [status |-> Text("Pushed")]
Denied == [error |-> Text("Access denied")]
DeniedWithStatus == [status |-> Text("Retrying"), error |-> Text("Access denied")]
Progress == [progressDetail |-> Text("1/2")]

PushStreams ==
    { <<>>, <<Pushed>>, <<Pushing, Progress, Pushed>>, <<Denied>>,
      <<Pushing, Denied>>, <<Denied, Pushed>>, <<DeniedWithStatus, Pushed>> }

DaemonOutcomes ==
    { [from_env |-> Exc("DockerException", Text("no daemon"), NoCause)],
      [push |-> Exc("APIError", Text("Connection refused"), NoCause)],
      [push |-> Exc("NotFound", Text("no such image"), NoCause)],
      [push |-> Exc("KeyboardInterrupt", <<>>, NoCause)] }
        \cup {[stream |-> st] : st \in PushStreams}

NoPath == [none |-> TRUE]
NoFile == [exists |-> FALSE, open |-> FALSE, content |-> <<>>]

\* build_and_push_docker(...) has been called in a worker and has run nothing yet.
InitJob ==
    /\ settings = SettingsOf(Lit(<<"s">>))
    /\ now \in 0..MaxTime
    /\ at = now
    /\ pc = "idle"
    /\ req = NoReq
    /\ event = NoEvent
    /\ resp = NoResp
    /\ steps = <<>>
    /\ tasks = <<>>
    /\ call = NoCall
    /\ cfg = NoCfg
    /\ pool = NoPool
    /\ \E a \in JobArgs :
           job = [ args |-> a, pc |-> "allocate",
                   image_name |-> <<>>, auth_config |-> PyNone, log_path |-> NoPath,
                   stdout |-> "original", stderr |-> "original", saved |-> "none",
                   log_file |-> NoFile,
                   build_calls |-> <<>>, packaging |-> NotCalled, built |-> NotCalled,
                   daemon |-> <<>>, ran |-> <<>>, push_calls |-> <<>>, logins |-> 0,
                   attempts |-> 0,
                   pushed |-> NotCalled, slept |-> <<>>, logged |-> <<>>,
                   pending |-> NoExc, trace |-> <<>>, result |-> NotCalled ]

JobUnchanged ==
    UNCHANGED <<settings, now, at, pc, req, event, resp, steps, tasks, call, cfg, pool>>

\* image_name, auth_config and log_path: BUILD_LOG_DIR.mkdir may raise, and
\* then the call ends there.
Allocate ==
    /\ job.pc = "allocate"
    /\ \E mkdir \in {[ret |-> PyNone],
                     Exc("PermissionError", Text("Permission denied: ") \o BUILD_LOG_DIR,
                         NoCause)} :
           LET j == [job EXCEPT
                        !.image_name = ImageName(job.args.docker_registry,
                                                 job.args.model_name, job.args.version),
                        !.auth_config = AuthConfig(job.args.docker_username,
                                                   job.args.docker_registry_password)]
           IN  job' = IF Raised(mkdir)
                      THEN [j EXCEPT !.pc = "done", !.result = mkdir,
                                     !.trace = Append(@, "raise")]
                      ELSE [j EXCEPT !.pc = "save",
                                     !.log_path = _get_build_log_path(job.args.model_name,
                                                      job.args.version, IntToStr(now)),
                                     !.trace = Append(@, "allocate")]
    /\ JobUnchanged

\* saved_stdout_fd = os.dup(stdout_fd); saved_stderr_fd = os.dup(stderr_fd)
SaveDescriptors ==
    /\ job.pc = "save"
    /\ job' = [job EXCEPT !.pc = "open", !.saved = "open", !.trace = Append(@, "save")]
    /\ JobUnchanged

\* with open(log_path, "w") as log_file: the file is created or truncated, or
\* open raises and the except clause is entered.
OpenLog ==
    /\ job.pc = "open"
    /\ \E opened \in {[ret |-> PyNone],
                      Exc("PermissionError", Text("Permission denied: log file"), NoCause)} :
           job' = IF Raised(opened)
                  THEN [job EXCEPT !.pc = "append", !.pending = opened,
                                   !.trace = Append(@, "open failed")]
                  ELSE [job EXCEPT !.pc = "redirect",
                                   !.log_file = [exists |-> TRUE, open |-> TRUE,
                                                 content |-> <<>>],
                                   !.trace = Append(@, "open")]
    /\ JobUnchanged

\* os.dup2(log_file.fileno(), stdout_fd); os.dup2(log_file.fileno(), stderr_fd):
\* either may raise OSError, and then the with block is left (the file is
\* closed) for the except clause, the inner try not yet entered.
Redirect ==
    /\ job.pc = "redirect"
    /\ \E failing \in {0, 1, 2} :
           LET e == Exc("OSError", Text("Bad file descriptor"), NoCause)
           IN  job' = CASE failing = 0 ->
                             [job EXCEPT !.pc = "build", !.stdout = "log", !.stderr = "log",
                                         !.trace = Append(@, "redirect")]
                        [] failing = 1 ->
                             [job EXCEPT !.pc = "append", !.pending = e,
                                         !.log_file.open = FALSE,
                                         !.trace = Append(@, "redirect failed")]
                        [] failing = 2 ->
                             [job EXCEPT !.pc = "append", !.pending = e,
                                         !.stdout = "log", !.log_file.open = FALSE,
                                         !.trace = Append(@, "redirect failed")]
    /\ JobUnchanged

\* _build_docker_image(model_uri, image_name)
Build ==
    /\ job.pc = "build"
    /\ \E packaging \in PackagingOutcomes :
           LET built == _build_docker_image(job.args.model_uri, job.image_name, packaging)
           IN  job' = [job EXCEPT
                          !.pc = AfterBuild(built),
                          !.build_calls = Append(@, [model_uri |-> job.args.model_uri,
                                                     name |-> job.image_name]),
                          !.packaging = packaging,
                          !.built = built,
                          !.pending = IF Raised(built) THEN built ELSE NoExc,
                          !.trace = Append(@, "build")]
    /\ JobUnchanged

\* One attempt of _push_docker_image(image_name, auth_config=auth_config) under
\* @retry: a failed attempt is followed by a sleep and another attempt while
\* the policy says so, else the pusher returns or raises.
Push ==
    /\ job.pc = "push"
    /\ \E daemon \in DaemonOutcomes :
           LET a == PushAttempt(job.image_name, job.auth_config, daemon)
               attempt_number == job.attempts + 1
               j == [job EXCEPT !.daemon = Append(@, daemon),
                                !.ran = Append(@, a),
                                !.attempts = attempt_number,
                                !.push_calls = @ \o a.calls,
                                !.logins = @ + a.logins,
                                !.logged = @ \o a.logged,
                                !.trace = Append(@, "push")]
           IN  job' = IF ~Raised(a.out)
                      THEN [j EXCEPT !.pc = "restore", !.pushed = a.out]
                      ELSE IF ShouldRetry(a.out) /\ attempt_number < StopAfterAttempt
                      THEN [j EXCEPT !.pc = RetryFrom,
                                     !.slept = Append(@, WaitExponential(attempt_number)),
                                     !.logged = Append(@, LogRecord("WARNING",
                                                               Text("Retrying _push_docker_image"))),
                                     !.trace = Append(@, "sleep")]
                      ELSE LET raised == IF ShouldRetry(a.out) THEN Reraise(a.out)
                                         ELSE a.out
                           IN  [j EXCEPT !.pc = "restore", !.pushed = raised,
                                         !.pending = raised]
    /\ JobUnchanged

\* finally: os.dup2(saved_stdout_fd, stdout_fd); os.dup2(saved_stderr_fd,
\* stderr_fd); then the with block closes the log file. An Exception in flight
\* enters the except clause, anything else goes to the outer finally.
Restore ==
    /\ job.pc = "restore"
    /\ job' = [job EXCEPT
                  !.pc = AfterRestore(job.pending),
                  !.stdout = "original", !.stderr = "original",
                  !.log_file.open = FALSE,
                  !.trace = Append(@, "restore")]
    /\ JobUnchanged

\* except Exception as e: with open(log_path, "a") as log_file:
\* log_file.write(f"\n\nFAILED: {e}\n"); raise. The open raises where the
\* open for writing did, and that error then replaces e.
AppendFailure ==
    /\ job.pc = "append"
    /\ job' = IF job.log_file.exists
              THEN [job EXCEPT !.pc = "close",
                               !.log_file.content = Append(@, FailedLine(job.pending)),
                               !.trace = Append(@, "append")]
              ELSE [job EXCEPT !.pc = "close",
                               !.pending = Exc("PermissionError",
                                               Text("Permission denied: log file"),
                                               job.pending),
                               !.trace = Append(@, "append failed")]
    /\ JobUnchanged

\* finally: os.close(saved_stdout_fd); os.close(saved_stderr_fd); then the
\* call returns None or the exception in flight leaves it.
CloseSaved ==
    /\ job.pc = "close"
    /\ job' = [job EXCEPT !.pc = "done", !.saved = "closed",
                          !.result = IF job.pending = NoExc THEN [ret |-> PyNone]
                                     ELSE job.pending,
                          !.trace = Append(@, IF job.pending = NoExc THEN "return"
                                              ELSE "raise")]
    /\ JobUnchanged

NextJob ==
    \/ Allocate
    \/ SaveDescriptors
    \/ OpenLog
    \/ Redirect
    \/ Build
    \/ Push
    \/ Restore
    \/ AppendFailure
    \/ CloseSaved

SpecJob == InitJob /\ [][NextJob]_vars

-----------------------------------------------------------------------------
(* config.py *)

\* A variable the environment does not hold.
Unset == [unset |-> TRUE]

EnvNames ==
    {"WEBHOOK_SECRET", "DOCKER_REGISTRY", "DOCKER_USERNAME", "DOCKER_PASSWORD",
     "MAX_TIMESTAMP_AGE", "PORT"}

\* os.environ[key]
Environ(environ, key) ==
    IF environ[key] = Unset THEN [exc |-> "KeyError", key |-> key]
    ELSE [ret |-> environ[key].str]

\* os.getenv(key, default)
GetEnv(environ, key, default) ==
    IF environ[key] = Unset THEN default ELSE environ[key].str

\* load_dotenv(): the variables of the .env file are put into os.environ where
\* it does not hold them yet.
LoadDotenv(environ, dotenv) ==
    [k \in EnvNames |-> IF environ[k] # Unset THEN environ[k] ELSE dotenv[k]]

DefaultRegistry == Lit(<<"d", "o", "c", "k", "e", "r", ".", "i", "o">>)
DefaultMaxTimestampAge == Lit(<<"3", "0", "0">>)
DefaultPort == Lit(<<"8", "0", "0", "0">>)

\* cls(...) of Settings.from_env over os.environ after load_dotenv(): the
\* arguments are evaluated in the order written and the first error ends it.
from_env(environ) ==
    LET webhook_secret == Environ(environ, "WEBHOOK_SECRET")
        docker_registry == GetEnv(environ, "DOCKER_REGISTRY", DefaultRegistry)
        docker_username == Environ(environ, "DOCKER_USERNAME")
        docker_password == Environ(environ, "DOCKER_PASSWORD")
        max_timestamp_age == PyInt(GetEnv(environ, "MAX_TIMESTAMP_AGE",
                                          DefaultMaxTimestampAge))
        port == PyInt(GetEnv(environ, "PORT", DefaultPort))
    IN  IF Raised(webhook_secret) THEN webhook_secret
        ELSE IF Raised(docker_username) THEN docker_username
        ELSE IF Raised(docker_password) THEN docker_password
        ELSE IF Raised(max_timestamp_age) THEN max_timestamp_age
        ELSE IF Raised(port) THEN port
        ELSE [ret |-> [ webhook_secret    |-> webhook_secret.ret,
                        docker_registry   |-> docker_registry,
                        docker_username   |-> docker_username.ret,
                        docker_password   |-> docker_password.ret,
                        max_timestamp_age |-> max_timestamp_age.ret,
                        port              |-> port.ret ]]

\* A Settings object: what `is` compares, and its fields.
Instance(id, fields) == [id |-> id, fields |-> fields]

\* Settings.from_env() in the process state c: the outcome, and c with the
\* environment as load_dotenv() left it, the call recorded and, on success,
\* one more object allocated.
CallFromEnv(c, fn) ==
    LET environ == LoadDotenv(c.environ, c.dotenv)
        loaded == from_env(environ)
        out == IF Raised(loaded) THEN loaded
               ELSE [ret |-> Instance(c.allocated + 1, loaded.ret)]
    IN  [ out |-> out,
          c   |-> [c EXCEPT !.environ = environ,
                            !.allocated = IF Raised(loaded) THEN @ ELSE @ + 1,
                            !.calls = Append(@, [fn |-> fn, out |-> out, loaded |-> TRUE])] ]

\* get_settings loading the settings on every call.
get_settings_uncached(c) ==
    LET made == CallFromEnv(c, "get_settings")
    IN  IF Raised(made.out) THEN made.c
        ELSE [made.c EXCEPT !._settings = made.out.ret]

\* get_settings() in the process state c.
get_settings(c) ==
    IF c._settings = PyNone
    THEN LET made == CallFromEnv(c, "get_settings")
         IN  IF Raised(made.out) THEN made.c
             ELSE [made.c EXCEPT !._settings = made.out.ret]
    ELSE [c EXCEPT !.calls = Append(@, [fn |-> "get_settings", out |-> [ret |-> c._settings],
                                        loaded |-> FALSE])]

\* reset_settings() in the process state c.
reset_settings(c) ==
    [c EXCEPT !._settings = PyNone,
              !.calls = Append(@, [fn |-> "reset_settings", out |-> [ret |-> PyNone],
                                   loaded |-> FALSE])]

-----------------------------------------------------------------------------
(* Calls of config.py in one process *)

\* The longest sequence of calls.
MaxCalls == 3

Environments ==
    { [ WEBHOOK_SECRET    |-> ws, DOCKER_REGISTRY |-> dr, DOCKER_USERNAME |-> du,
        DOCKER_PASSWORD   |-> dp, MAX_TIMESTAMP_AGE |-> ma, PORT |-> po ]
      : ws \in {Unset, PyStr(Lit(<<"s">>))},
        dr \in {Unset, PyStr(Lit(<<"r", ".", "i", "o">>))},
        du \in {Unset, PyStr(Lit(<<"u">>))},
        dp \in {Unset, PyStr(Lit(<<"p", "w">>))},
        ma \in {Unset, PyStr(Lit(<<"6", "0", "0">>)), PyStr(Lit(<<"x">>))},
        po \in {Unset, PyStr(Lit(<<"9", "0", "0", "0">>))} }

NoDotenv == [k \in EnvNames |-> Unset]

\* The .env file: none, or one that sets the password.
Dotenvs == {NoDotenv, [NoDotenv EXCEPT !["DOCKER_PASSWORD"] = PyStr(Lit(<<"f">>))]}

InitConfig ==
    /\ settings = SettingsOf(Lit(<<"s">>))
    /\ now = 0
    /\ at = 0
    /\ pc = "idle"
    /\ req = NoReq
    /\ event = NoEvent
    /\ resp = NoResp
    /\ steps = <<>>
    /\ tasks = <<>>
    /\ call = NoCall
    /\ job = NoJob
    /\ pool = NoPool
    /\ \E e \in Environments, d \in Dotenvs :
           cfg = [ environ |-> e, env0 |-> LoadDotenv(e, d), dotenv |-> d,
                   _settings |-> PyNone, allocated |-> 0, calls |-> <<>> ]

ConfigUnchanged ==
    UNCHANGED <<settings, now, at, pc, req, event, resp, steps, tasks, call, job, pool>>

\* Settings.from_env()
FromEnv ==
    /\ Len(cfg.calls) < MaxCalls
    /\ cfg' = CallFromEnv(cfg, "from_env").c
    /\ ConfigUnchanged

\* get_settings()
GetSettings ==
    /\ Len(cfg.calls) < MaxCalls
    /\ cfg' = get_settings(cfg)
    /\ ConfigUnchanged

\* reset_settings()
ResetSettings ==
    /\ Len(cfg.calls) < MaxCalls
    /\ cfg' = reset_settings(cfg)
    /\ ConfigUnchanged

NextConfig ==
    \/ FromEnv
    \/ GetSettings
    \/ ResetSettings

SpecConfig == InitConfig /\ [][NextConfig]_vars

-----------------------------------------------------------------------------
(* Build jobs running at the same time *)

\* Two build jobs, numbered; the request-handling process has number 0.
Workers == {1, 2}
Server == 0

\* The model names and versions of the jobs: plain ones, and ones with the
\* characters the log allocator replaces.
PoolBuilds ==
    { [model_name |-> ModelName, version |-> Version],
      [model_name |-> Lit(<<"a", "/", "b">>), version |-> Version],
      [model_name |-> Lit(<<"a", ":", "b">>), version |-> Version],
      [model_name |-> ModelName, version |-> Lit(<<"p", "/", "1", ":", "2">>)] }

\* All jobs in the request-handling process, as threads of it.
ProcessOfThread(w) == Server

\* The process job w runs in: build_and_push_docker_async makes a
\* ProcessPoolExecutor(max_workers=1) of its own for each job.
ProcessOf(w) == w

\* What a descriptor refers to: the stream the process was started with, or a file.
Original == [original |-> TRUE]
File(path) == [file |-> path]

InitPool ==
    /\ settings = SettingsOf(Lit(<<"s">>))
    /\ now = 0
    /\ at = 0
    /\ pc = "idle"
    /\ req = NoReq
    /\ event = NoEvent
    /\ resp = NoResp
    /\ steps = <<>>
    /\ tasks = <<>>
    /\ call = NoCall
    /\ job = NoJob
    /\ cfg = NoCfg
    /\ \E b \in [Workers -> PoolBuilds] :
           pool = [ jobs    |-> [w \in Workers |->
                                    [args |-> b[w], pc |-> "submitted", started |-> 0,
                                     log_path |-> NoPath]],
                    streams |-> [p \in Workers \cup {Server} |->
                                    [stdout |-> Original, stderr |-> Original]],
                    files   |-> <<>>,
                    instant |-> 0 ]

PoolUnchanged ==
    UNCHANGED <<settings, now, at, pc, req, event, resp, steps, tasks, call, job, cfg>>

\* The file at the path, or none.
FileAt(files, path) == {i \in DOMAIN files : files[i].path = path}

\* open(path, "w"): the file is created, or emptied when it is there.
OpenForWriting(files, path) ==
    IF FileAt(files, path) = {} THEN Append(files, [path |-> path, content |-> <<>>])
    ELSE [i \in DOMAIN files |-> IF files[i].path = path
                                 THEN [path |-> path, content |-> <<>>] ELSE files[i]]

\* A write to the descriptor: it reaches the file the descriptor refers to.
WriteTo(files, target, data) ==
    IF target = Original THEN files
    ELSE [i \in DOMAIN files |-> IF files[i].path = target.file
                                 THEN [files[i] EXCEPT !.content = Append(@, data)]
                                 ELSE files[i]]

\* Job w starts: log_path = _get_build_log_path(model_name, version) at the
\* clock's second; the instant of the start is its own.
PoolAllocate(w) ==
    /\ pool.jobs[w].pc = "submitted"
    /\ pool' = [pool EXCEPT
                   !.jobs[w].pc = "allocated",
                   !.jobs[w].started = pool.instant + 1,
                   !.jobs[w].log_path = _get_build_log_path(pool.jobs[w].args.model_name,
                                            pool.jobs[w].args.version, IntToStr(now)),
                   !.instant = @ + 1]
    /\ PoolUnchanged

\* with open(log_path, "w") as log_file: os.dup2(log_file.fileno(), stdout_fd);
\* os.dup2(log_file.fileno(), stderr_fd), in the process the job runs in.
PoolRedirect(w) ==
    /\ pool.jobs[w].pc = "allocated"
    /\ pool' = [pool EXCEPT
                   !.jobs[w].pc = "running",
                   !.files = OpenForWriting(@, pool.jobs[w].log_path),
                   !.streams[ProcessOf(w)] = [stdout |-> File(pool.jobs[w].log_path),
                                              stderr |-> File(pool.jobs[w].log_path)]]
    /\ PoolUnchanged

\* The build and push steps write their output to standard output.
PoolWrite(w) ==
    /\ pool.jobs[w].pc = "running"
    /\ pool' = [pool EXCEPT
                   !.jobs[w].pc = "written",
                   !.files = WriteTo(@, pool.streams[ProcessOf(w)].stdout, w)]
    /\ PoolUnchanged

\* finally: os.dup2(saved_stdout_fd, stdout_fd); os.dup2(saved_stderr_fd, stderr_fd)
PoolRestore(w) ==
    /\ pool.jobs[w].pc = "written"
    /\ pool' = [pool EXCEPT
                   !.jobs[w].pc = "done",
                   !.streams[ProcessOf(w)] = [stdout |-> Original, stderr |-> Original]]
    /\ PoolUnchanged

NextPool ==
    \/ Tick
    \/ \E w \in Workers : PoolAllocate(w)
    \/ \E w \in Workers : PoolRedirect(w)
    \/ \E w \in Workers : PoolWrite(w)
    \/ \E w \in Workers : PoolRestore(w)

SpecPool == InitPool /\ [][NextPool]_vars

-----------------------------------------------------------------------------
(* One request delivered again *)

\* The most deliveries of the request.
MaxDeliveries == 2

\* A sender holds one request and posts it, unchanged, again and again; what
\* each delivery was answered and scheduled is kept for the record.
InitReplay ==
    /\ settings \in {SettingsOf(s) : s \in EnvSecrets}
    /\ now \in 0..MaxTime
    /\ at = now
    /\ pc = "idle"
    /\ req = NoReq
    /\ event = NoEvent
    /\ resp = NoResp
    /\ steps = <<>>
    /\ tasks = <<>>
    /\ job = NoJob
    /\ cfg = NoCfg
    /\ pool = NoPool
    /\ \E rq \in Requests : call = [fn |-> "POST /webhook", request |-> rq, deliveries |-> <<>>]

\* The number of asyncio.create_task calls among the steps run.
NCreatedIn(ran) == Cardinality({i \in DOMAIN ran : ran[i] = "create_task"})

\* The request arrives once more.
Redeliver ==
    /\ Len(call.deliveries) < MaxDeliveries
    /\ Receive(call.request)

\* The response is sent and the delivery is over.
ReplayRespond ==
    /\ pc = "responded"
    /\ call' = [call EXCEPT !.deliveries =
                   Append(@, [ resp |-> resp, at |-> at,
                               scheduled |-> NCreatedIn(steps) ])]
    /\ pc' = "idle"
    /\ req' = NoReq
    /\ event' = NoEvent
    /\ resp' = NoResp
    /\ steps' = <<>>
    /\ at' = now
    /\ UNCHANGED <<settings, now, tasks, job, cfg, pool>>

NextReplay ==
    \/ Tick
    \/ Redeliver
    \/ HandleWebhook
    \/ ReplayRespond

SpecReplay == InitReplay /\ [][NextReplay]_vars

-----------------------------------------------------------------------------
(* Properties of the dispatcher, checked under Spec *)

Range(f) == {f[i] : i \in DOMAIN f}

Responded == pc = "responded"

Present(h) == IsStr(h) /\ h.str # <<>>

\* All three headers are there and not empty.
HasAllHeaders(rq) ==
    /\ Present(rq.x_mlflow_signature)
    /\ Present(rq.x_mlflow_delivery_id)
    /\ Present(rq.x_mlflow_timestamp)

Parses(h) == IsStr(h) /\ ~Raised(PyInt(h.str))

\* The age of the request's timestamp at clock reading t.
Age(rq, t) == t - PyInt(rq.x_mlflow_timestamp.str).ret

\* The timestamp is current, and older than the configured maximum age.
Current(rq, t) ==
    /\ Parses(rq.x_mlflow_timestamp)
    /\ 0 <= Age(rq, t) /\ Age(rq, t) <= settings.max_timestamp_age
Stale(rq, t) ==
    /\ Parses(rq.x_mlflow_timestamp)
    /\ Age(rq, t) > settings.max_timestamp_age

\* The signature header is the one a sender holding `secret` attaches.
SignedBy(rq, secret) ==
    rq.x_mlflow_signature =
        PyStr(generate_signature(rq.body, secret, HeaderText(rq.x_mlflow_delivery_id),
                                 HeaderText(rq.x_mlflow_timestamp)))

\* Signed under the configured webhook secret, with a current timestamp.
Authentic(rq, t) ==
    HasAllHeaders(rq) /\ Current(rq, t) /\ SignedBy(rq, settings.webhook_secret)

\* The build jobs the request in flight has scheduled.
NCreated == Cardinality({i \in DOMAIN steps : steps[i] = "create_task"})
Scheduled == SubSeq(tasks, Len(tasks) - NCreated + 1, Len(tasks))

NothingScheduled == NCreated = 0 /\ tasks = <<>>

\* C1: an authentic POST /webhook with a model_version/created body is answered
\* 202 {"status": "submitted"} and schedules exactly one build job, whose
\* modelURI is data.source, model name data.name and version data.version.
C1_CreatedIsSubmitted ==
    (Responded /\ req.body = JsonText(CreatedDoc) /\ Authentic(req, at)) =>
        /\ resp = Submitted
        /\ Len(Scheduled) = 1
        /\ Scheduled[1].model_uri = CreatedDoc.data.source
        /\ Scheduled[1].model_name = CreatedDoc.data.name
        /\ Scheduled[1].version = CreatedDoc.data.version

\* C2: a request with all three headers and a current timestamp, signed with
\* a secret other than the configured one, is answered 401 "Invalid signature"
\* and schedules no build job.
C2_WrongSecretIs401 ==
    (/\ Responded /\ req.body = JsonText(CreatedDoc)
     /\ HasAllHeaders(req) /\ Current(req, at)
     /\ \E s \in EnvSecrets : s # settings.webhook_secret /\ SignedBy(req, s)) =>
        /\ resp = HTTPException(401, "Invalid signature")
        /\ NothingScheduled

TimestampDetail == "Timestamp is too old or invalid (possible replay attack)"

\* C3: a request with its three headers and a recognised event whose timestamp
\* is older than the configured maximum age is answered 400 with the
\* "Timestamp ..." detail and schedules no build job, correctly signed or not.
C3_StaleIs400 ==
    (Responded /\ HasAllHeaders(req) /\ event # NoEvent /\ Stale(req, at)) =>
        /\ resp = HTTPException(400, TimestampDetail)
        /\ NothingScheduled

\* A correctly signed model_version/created request, stale, answered 400.
C3_Witness ==
    /\ Responded /\ req.body = JsonText(CreatedDoc)
    /\ HasAllHeaders(req) /\ SignedBy(req, settings.webhook_secret)
    /\ Stale(req, at)
    /\ resp.status = 400 /\ resp.text = TimestampDetail

\* C4: an authentic request whose (entity, action) triggers no build
\* (model_version_tag/set, unknown_entity/unknown_action) gets the acceptance
\* response of a scheduled event, is not rejected, and schedules no build job.
C4_OtherEventIsAccepted ==
    (/\ Responded
     /\ req.body \in {JsonText(TagSetDoc), JsonText(UnknownDoc)}
     /\ Authentic(req, at)) =>
        /\ resp = Submitted
        /\ NothingScheduled

\* C5: an authentic model_version_alias/created event with name n and alias a
\* schedules exactly one build job with modelURI "models:/n@a", model name n
\* and version a.
C5_AliasCreatedIsScheduled ==
    (Responded /\ req.body = JsonText(AliasCreatedDoc) /\ Authentic(req, at)) =>
        /\ Len(Scheduled) = 1
        /\ Scheduled[1].model_uri =
               Lit(<<"m", "o", "d", "e", "l", "s", ":", "/", "m", "@", "p">>)
        /\ Scheduled[1].model_name = AliasCreatedDoc.data.name
        /\ Scheduled[1].version = AliasCreatedDoc.data.alias

\* C6: a request in which any of the three headers is absent or empty is
\* answered 400 or 422 before the freshness and the signature check run, and
\* schedules no build job.
C6_MissingHeaderIsRejected ==
    (Responded /\ ~HasAllHeaders(req)) =>
        /\ resp.status \in {400, 422}
        /\ "freshness" \notin Range(steps)
        /\ "signature" \notin Range(steps)
        /\ NothingScheduled

\* An otherwise authentic request with an empty delivery id, answered 400 by
\* the handler.
C6_Witness ==
    /\ Responded /\ req.body = JsonText(CreatedDoc)
    /\ req.x_mlflow_delivery_id = PyStr(<<>>)
    /\ Present(req.x_mlflow_signature)
    /\ Current(req, at)
    /\ resp = HTTPException(400, "Missing delivery ID header")
    /\ steps = <<"resolve">>

-----------------------------------------------------------------------------
(* Properties of verify_mlflow_signature, checked under SpecVerify *)

Called == call.out # NotCalled

DeliveryFields == {"payload", "secret", "delivery_id", "timestamp"}

\* The fields in which deliveries a and b differ.
DiffFields(a, b) == {f \in DeliveryFields : a[f] # b[f]}

\* C8 as stated: the header made for a delivery verifies as true with the
\* same four values, and as false with exactly one of them replaced.
C8_AnySingleChangeFails ==
    Called =>
        \A x \in Deliveries : call.signature = SignatureOf(x) =>
            /\ x = call.args => call.out = [ret |-> TRUE]
            /\ Cardinality(DiffFields(x, call.args)) = 1 => call.out = [ret |-> FALSE]

\* Two secrets that give hmac the same key: equal once trailing NULs are dropped.
SameKey(a, b) == StripZeros(Utf8Encode(a)) = StripZeros(Utf8Encode(b))

\* C8 amended: true with the same four values; false with exactly one of
\* payload, delivery id and timestamp replaced, or with the secret replaced by
\* one that gives another HMAC key.
C8_SingleChangeFails ==
    Called =>
        \A x \in Deliveries : call.signature = SignatureOf(x) =>
            /\ x = call.args => call.out = [ret |-> TRUE]
            /\ \A f \in DeliveryFields :
                   (/\ DiffFields(x, call.args) = {f}
                    /\ f = "secret" => ~SameKey(x.secret, call.args.secret))
                   => call.out = [ret |-> FALSE]

\* A header made with the same values but another timestamp, verified false.
C8_Witness ==
    /\ Called
    /\ \E x \in Deliveries :
           /\ call.signature = SignatureOf(x)
           /\ DiffFields(x, call.args) = {"timestamp"}
    /\ call.out = [ret |-> FALSE]

\* C9: a header that does not start with "v1," verifies as false, even with
\* the right digest after it.
C9_NoV1PrefixFails ==
    (Called /\ ~StartsWith(call.signature, Lit(<<"v", "1", ",">>))) =>
        call.out = [ret |-> FALSE]

\* The right digest after "v2,", verified false.
C9_Witness ==
    /\ Called
    /\ call.signature = V2Prefix \o RemovePrefix(SignatureOf(call.args), V1Prefix)
    /\ call.out = [ret |-> FALSE]

\* C10: a header "v1," + x with x no valid base64 verifies as false, and the
\* call never raises.
C10_GarbageFailsClosed ==
    (Called /\ \E g \in Garbage : call.signature = V1Prefix \o g) =>
        call.out = [ret |-> FALSE]

-----------------------------------------------------------------------------
(* Properties of verify_timestamp_freshness, checked under SpecFresh *)

\* C11: the result is true iff the argument is the text of an integer t with
\* 0 <= now - t <= max_age; it is false, not an exception, for text that is
\* no integer, for the empty string and for None.
C11_FreshIffWithinMaxAge ==
    Called =>
        call.out = [ret |-> /\ ~Raised(call.int)
                            /\ 0 <= now - call.int.ret
                            /\ now - call.int.ret <= call.max_age]

\* A timestamp of age exactly max_age > 0, found fresh.
C11_Witness ==
    /\ Called
    /\ ~Raised(call.int)
    /\ call.max_age > 0
    /\ now - call.int.ret = call.max_age
    /\ call.out = [ret |-> TRUE]

-----------------------------------------------------------------------------
(* Properties of the pusher, the builder and the orchestrator, under SpecJob *)

\* The pusher has returned or raised.
PusherDone == job.pushed # NotCalled

\* The attempt fails with docker.errors.APIError out of the push call.
IsAPIError(daemon) == "push" \in DOMAIN daemon /\ IsInstance(daemon.push, "APIError")

\* The attempt's push call yields a stream without an error event.
Succeeds(daemon) ==
    /\ "stream" \in DOMAIN daemon
    /\ \A i \in DOMAIN daemon.stream : "error" \notin DOMAIN daemon.stream[i]

\* C12: when the first push attempt raises an API error a second attempt is
\* made, and if that one succeeds _push_docker_image returns and the registry
\* push has been called exactly 2 times.
C12_RetryThenSuccess ==
    (PusherDone /\ IsAPIError(job.daemon[1])) =>
        /\ Len(job.daemon) >= 2
        /\ Succeeds(job.daemon[2]) =>
               /\ job.pushed = [ret |-> PyNone]
               /\ job.attempts = 2
               /\ Len(job.push_calls) = 2

\* The first attempt met an API error, the second succeeded, the pusher returned.
C12_Witness ==
    /\ PusherDone
    /\ Len(job.daemon) = 2
    /\ IsAPIError(job.daemon[1])
    /\ Succeeds(job.daemon[2])
    /\ job.pushed = [ret |-> PyNone]
    /\ Len(job.push_calls) = 2

\* C13: when every push attempt raises an API error, exactly 3 attempts are
\* made and the pusher raises the error of the last attempt itself, not
\* wrapped in another exception.
C13_GivesUpAfterThree ==
    (PusherDone /\ \A i \in DOMAIN job.daemon : IsAPIError(job.daemon[i])) =>
        /\ job.attempts = StopAfterAttempt
        /\ Len(job.push_calls) = StopAfterAttempt
        /\ job.pushed = job.daemon[Len(job.daemon)].push

\* Three failed attempts whose last error differs from the first two.
C13_Witness ==
    /\ PusherDone
    /\ Len(job.daemon) = 3
    /\ \A i \in DOMAIN job.daemon : IsAPIError(job.daemon[i])
    /\ job.daemon[3] # job.daemon[1]
    /\ job.daemon[3] # job.daemon[2]
    /\ job.pushed = job.daemon[3].push

\* Registry, username and password are all supplied.
HasAllCredentials(a) ==
    /\ a.docker_registry # <<>>
    /\ a.docker_username # PyNone
    /\ a.docker_registry_password # PyNone

\* C14: once the push has been called, one login has been made when registry,
\* username and password were all supplied and none when one was missing.
C14_LoginBeforePush ==
    (job.push_calls # <<>>) =>
        job.logins = IF HasAllCredentials(job.args) THEN 1 ELSE 0

JobDone == job.pc = "done"

\* C15: when the build step raises, the push step is never invoked (no push
\* attempt, no push call, no login) and the build error is what the
\* orchestrator raises.
C15_BuildFailureSkipsPush ==
    (job.built # NotCalled /\ Raised(job.built)) =>
        /\ job.attempts = 0
        /\ job.push_calls = <<>>
        /\ job.logins = 0
        /\ job.pc # "push"
        /\ JobDone => job.result = job.built

\* The build raised and the orchestrator has ended.
C15_Witness ==
    /\ JobDone
    /\ job.built # NotCalled
    /\ Raised(job.built)
    /\ job.result = job.built
    /\ job.push_calls = <<>>

\* The text sub occurs in the text s.
Contains(s, sub) ==
    \E i \in 1..(Len(s) - Len(sub) + 1) : SubSeq(s, i, i + Len(sub) - 1) = sub

\* C16: the builder makes one packaging call with the model URI and the image
\* name, returns its result unchanged, and turns an error (an Exception of
\* any class) it raises into a DockerBuildError whose message contains the
\* image name and the original message; no other Exception leaves the builder.
C16_BuilderWrapsErrors ==
    (job.built # NotCalled) =>
        /\ job.build_calls = <<[model_uri |-> job.args.model_uri, name |-> job.image_name]>>
        /\ ~Raised(job.packaging) => job.built = job.packaging
        /\ (Raised(job.packaging) /\ IsInstance(job.packaging, "Exception")) =>
               /\ job.built.exc = "DockerBuildError"
               /\ Contains(job.built.msg, job.image_name)
               /\ Contains(job.built.msg, job.packaging.msg)
        /\ (Raised(job.built) /\ IsInstance(job.built, "Exception")) =>
               job.built.exc = "DockerBuildError"

\* The packaging call raised an API error, which left the builder as a
\* DockerBuildError.
C16_Witness ==
    /\ job.built # NotCalled
    /\ Raised(job.packaging)
    /\ job.packaging.exc = "APIError"
    /\ job.built.exc = "DockerBuildError"
    /\ job.built.cause = job.packaging

\* "{registry}/{username}/{modelName}:{version}"
NameWithUsername(a) ==
    a.docker_registry \o Lit(<<"/">>) \o a.docker_username.str \o Lit(<<"/">>)
        \o a.model_name \o Lit(<<":">>) \o a.version

\* C17: the build step and every push call are given the image name
\* "{registry}/{username}/{modelName}:{version}" of the job's fields.
C17_ImageNameOfJobFields ==
    (job.args.docker_username # PyNone) =>
        /\ \A i \in DOMAIN job.build_calls :
               job.build_calls[i].name = NameWithUsername(job.args)
        /\ \A i \in DOMAIN job.push_calls :
               job.push_calls[i].name = NameWithUsername(job.args)

-----------------------------------------------------------------------------
(* Properties of config.py, checked under SpecConfig *)

\* The calls of Settings.from_env made so far.
FromEnvCalls == {i \in DOMAIN cfg.calls : cfg.calls[i].fn = "from_env"}

\* The environment lacks the variable.
Absent(name) == cfg.env0[name] = Unset

\* C18: Settings.from_env raises KeyError whenever WEBHOOK_SECRET or
\* DOCKER_USERNAME is absent from the environment, and with both present and
\* DOCKER_REGISTRY, MAX_TIMESTAMP_AGE and PORT unset it returns Settings with
\* docker.io, 300 and 8000.
C18_RequiredAndDefaults ==
    \A i \in FromEnvCalls :
        LET out == cfg.calls[i].out
        IN  /\ (Absent("WEBHOOK_SECRET") \/ Absent("DOCKER_USERNAME")) =>
                   (Raised(out) /\ out.exc = "KeyError")
            /\ ( /\ ~Absent("WEBHOOK_SECRET") /\ ~Absent("DOCKER_USERNAME")
                 /\ Absent("DOCKER_REGISTRY") /\ Absent("MAX_TIMESTAMP_AGE")
                 /\ Absent("PORT") ) =>
                   /\ ~Raised(out)
                   /\ out.ret.fields.docker_registry = DefaultRegistry
                   /\ out.ret.fields.max_timestamp_age = 300
                   /\ out.ret.fields.port = 8000

\* The calls of get_settings that returned.
Gets ==
    {i \in DOMAIN cfg.calls : cfg.calls[i].fn = "get_settings" /\ ~Raised(cfg.calls[i].out)}

\* reset_settings was called between calls i and j.
ResetBetween(i, j) ==
    \E k \in DOMAIN cfg.calls : i < k /\ k < j /\ cfg.calls[k].fn = "reset_settings"

\* C19: two calls of get_settings return the identical instance when no
\* reset_settings lies between them and different instances when one does;
\* a call reads the environment only when no earlier call has returned since
\* the start or the last reset.
C19_CachedUntilReset ==
    /\ \A i, j \in Gets :
           i < j => ( (cfg.calls[i].out.ret.id = cfg.calls[j].out.ret.id)
                          <=> ~ResetBetween(i, j) )
    /\ \A i, j \in Gets :
           (i < j /\ ~ResetBetween(i, j)) => ~cfg.calls[j].loaded

\* get_settings, reset_settings, get_settings: two different instances.
C19_Witness ==
    /\ Len(cfg.calls) = 3
    /\ Gets = {1, 3}
    /\ cfg.calls[2].fn = "reset_settings"
    /\ cfg.calls[1].out.ret.id # cfg.calls[3].out.ret.id
    /\ cfg.calls[3].loaded

-----------------------------------------------------------------------------
(* The order of the handler's checks, under Spec *)

\* C20: freshness is evaluated before the signature: a request with its
\* three headers and a recognised event whose timestamp is stale is answered
\* 400 with the "Timestamp ..." detail and never 401, however it is signed,
\* and the freshness check is the only check run: no HMAC is computed.
C20_FreshnessBeforeSignature ==
    (Responded /\ HasAllHeaders(req) /\ event # NoEvent /\ Stale(req, at)) =>
        /\ resp = HTTPException(400, TimestampDetail)
        /\ resp.status # 401
        /\ "freshness" \in Range(steps)
        /\ "signature" \notin Range(steps)

\* A stale request signed with a signature that is not the configured
\* secret's, answered 400 after the freshness check alone.
C20_Witness ==
    /\ Responded /\ HasAllHeaders(req) /\ event # NoEvent
    /\ Stale(req, at)
    /\ ~SignedBy(req, settings.webhook_secret)
    /\ resp = HTTPException(400, TimestampDetail)
    /\ "freshness" \in Range(steps)
    /\ "signature" \notin Range(steps)

-----------------------------------------------------------------------------
(* The stages of a request, under Spec *)

\* C21: the body is parsed and classified only after the freshness and
\* signature checks have passed: a request with its three headers that fails
\* one of the two checks is answered 400 or 401 whatever its body is, and its
\* body has not been classified.
C21_AuthenticationBeforeBody ==
    (Responded /\ HasAllHeaders(req) /\ ~Authentic(req, at)) =>
        /\ resp.status \in {400, 401}
        /\ "match" \notin Range(steps)

-----------------------------------------------------------------------------
(* The retry policy and the progress stream, under SpecJob *)

\* The exception is a registry API error or the pusher's own error.
IsTransient(e) == e.exc \in {"APIError", "NotFound", "DockerPushError"}

\* C22: a push attempt is followed by another only when it failed with a
\* registry API error or a DockerPushError; any other exception leaves the
\* pusher from the attempt that raised it (after exactly one attempt when it
\* is the first); no run makes more than 3 attempts.
C22_RetryOnlyTransient ==
    /\ job.attempts <= 3
    /\ Len(job.ran) = job.attempts
    /\ \A i \in 1..(Len(job.ran) - 1) :
           Raised(job.ran[i].out) /\ IsTransient(job.ran[i].out)
    /\ \A i \in DOMAIN job.ran :
           (Raised(job.ran[i].out) /\ ~IsTransient(job.ran[i].out)) =>
               /\ i = Len(job.ran)
               /\ job.pushed = job.ran[i].out

\* A DockerPushError was retried and the second attempt found no daemon:
\* that DockerException left the pusher after 2 attempts.
C22_Witness ==
    /\ PusherDone
    /\ job.attempts = 2
    /\ job.ran[1].out.exc = "DockerPushError"
    /\ Raised(job.ran[2].out)
    /\ job.ran[2].out.exc = "DockerException"
    /\ job.pushed = job.ran[2].out

\* C23: the waits between failed push attempts are 4 seconds before attempt 2
\* and 8 seconds before attempt 3 (exponential backoff from 4 seconds,
\* doubling), and no wait is longer than 60 seconds.
C23_BackoffDoubles ==
    /\ \A i \in DOMAIN job.slept : job.slept[i] = 4 * Pow2(i - 1)
    /\ \A i \in DOMAIN job.slept : job.slept[i] <= 60

\* The index of the first event of the stream that carries an error, 0 if none.
FirstError(stream) ==
    IF \E i \in DOMAIN stream : "error" \in DOMAIN stream[i]
    THEN CHOOSE i \in DOMAIN stream :
             /\ "error" \in DOMAIN stream[i]
             /\ \A k \in 1..(i - 1) : "error" \notin DOMAIN stream[k]
    ELSE 0

\* The statuses of the first n events of the stream, in order.
RECURSIVE Statuses(_, _)
Statuses(stream, n) ==
    IF n = 0 THEN <<>>
    ELSE Statuses(stream, n - 1)
             \o (IF "status" \in DOMAIN stream[n] THEN <<stream[n].status>> ELSE <<>>)

\* The statuses an attempt logged, in the order logged.
LoggedStatuses(a) ==
    LET recs == SelectSeq(a.logged, LAMBDA rec : SubSeq(rec.msg, 1, 1) = Text("Push status: "))
    IN  [i \in DOMAIN recs |-> Tail(recs[i].msg)]

\* C24: within a push attempt the events are consumed in order: the statuses
\* of the events up to and including the first one that carries an error are
\* logged in order and those alone; that event raises DockerPushError with its
\* error message and no later event is processed; a stream without an error
\* is read to its end and the attempt returns.
C24_StreamStopsAtFirstError ==
    \A i \in DOMAIN job.ran :
        ("stream" \in DOMAIN job.daemon[i]) =>
            LET stream == job.daemon[i].stream
                k == FirstError(stream)
                a == job.ran[i]
            IN  IF k = 0
                THEN /\ a.out = [ret |-> PyNone]
                     /\ a.consumed = Len(stream)
                     /\ LoggedStatuses(a) = Statuses(stream, Len(stream))
                ELSE /\ a.out = DockerPushError(stream[k].error)
                     /\ a.consumed = k
                     /\ LoggedStatuses(a) = Statuses(stream, k)

\* A stream whose first event carries a status and an error and is followed by
\* another event: the status was logged, the error raised, the rest not read.
C24_Witness ==
    \E i \in DOMAIN job.ran :
        /\ "stream" \in DOMAIN job.daemon[i]
        /\ job.daemon[i].stream = <<DeniedWithStatus, Pushed>>
        /\ job.ran[i].consumed = 1
        /\ job.ran[i].out = DockerPushError(Text("Access denied"))
        /\ LoggedStatuses(job.ran[i]) = <<Text("Retrying")>>

-----------------------------------------------------------------------------
(* Redirection, the log and re-runs, under SpecJob *)

\* C25: when build_and_push_docker has returned or raised, standard output
\* and standard error refer to the original streams again, on every exit
\* path; they refer to the log file only while the build and push steps run.
C25_StreamsRestoredOnExit ==
    /\ JobDone => (job.stdout = "original" /\ job.stderr = "original")
    /\ (job.stdout = "log" \/ job.stderr = "log") => job.pc \in {"build", "push", "restore"}

\* The place of the first occurrence of the event in the run, 0 if none.
Place(e) ==
    IF \E i \in DOMAIN job.trace : job.trace[i] = e
    THEN CHOOSE i \in DOMAIN job.trace :
             job.trace[i] = e /\ \A k \in 1..(i - 1) : job.trace[k] # e
    ELSE 0

\* The error the build step or the push step raised, if one did.
StepError ==
    IF job.built # NotCalled /\ Raised(job.built) THEN job.built
    ELSE IF job.pushed # NotCalled /\ Raised(job.pushed) THEN job.pushed
    ELSE NoExc

StepFailed == StepError # NoExc /\ IsInstance(StepError, "Exception")

\* C26: when the build or push step has failed, the error was appended to the
\* log file, then the redirection was torn down, and the same error leaves
\* the orchestrator.
C26_AppendThenTearDown ==
    (JobDone /\ StepFailed) =>
        /\ Place("append") > 0
        /\ Place("append") < Place("restore")
        /\ job.result = StepError

\* C26 as the code has it: when the build or push step has failed with an
\* Exception, the original streams were restored first, then the error was
\* appended to the log file, then the saved descriptors were closed, and the
\* same error leaves the orchestrator.
C26_RestoreAppendClose ==
    (JobDone /\ StepFailed) =>
        /\ Place("restore") > 0
        /\ Place("restore") < Place("append")
        /\ Place("append") < Place("raise")
        /\ job.saved = "closed"
        /\ job.log_file.content = <<FailedLine(StepError)>>
        /\ job.result = StepError

\* The push failed after three attempts and the job has ended with the
\* failure line in its log.
C26_Witness ==
    /\ JobDone
    /\ job.attempts = 3
    /\ StepFailed
    /\ job.result = job.pushed
    /\ job.log_file.content = <<FailedLine(job.pushed)>>
    /\ Place("restore") < Place("append")

\* C27: within one job the image builder is invoked at most once, and exactly
\* once when the build step has been reached, whether the build fails or the
\* push fails and is retried; only the push step is repeated.
C27_BuildRunsOnce ==
    /\ Len(job.build_calls) <= 1
    /\ (job.built # NotCalled \/ job.attempts > 0) => Len(job.build_calls) = 1
    /\ Cardinality({i \in DOMAIN job.trace : job.trace[i] = "build"}) <= 1

\* Three push attempts after one build.
C27_Witness ==
    /\ JobDone
    /\ job.attempts = 3
    /\ Len(job.push_calls) = 3
    /\ Len(job.build_calls) = 1

-----------------------------------------------------------------------------
(* Properties of jobs running at the same time, under SpecPool *)

\* Job w has its output redirected.
Redirected(w) == pool.jobs[w].pc \in {"running", "written"}

Allocated(w) == pool.jobs[w].log_path # NoPath

\* C28: two jobs that have their output redirected at the same time never
\* redirect to the same target: each one's standard output and standard error
\* refer to its own log file, which is not the other's, and the streams of
\* the request-handling process are the original ones.
C28_NoSharedRedirectionTarget ==
    /\ pool.streams[Server] = [stdout |-> Original, stderr |-> Original]
    /\ \A w \in Workers :
           Redirected(w) =>
               pool.streams[w] = [stdout |-> File(pool.jobs[w].log_path),
                                  stderr |-> File(pool.jobs[w].log_path)]
    /\ \A v, w \in Workers :
           (v # w /\ Redirected(v) /\ Redirected(w)) =>
               pool.streams[v].stdout # pool.streams[w].stdout

\* C29: two builds that differ in model name, version or start time are given
\* different log file paths.
C29_UniqueLogPath ==
    \A v, w \in Workers :
        ( /\ v # w /\ Allocated(v) /\ Allocated(w)
          /\ \/ pool.jobs[v].args.model_name # pool.jobs[w].args.model_name
             \/ pool.jobs[v].args.version # pool.jobs[w].args.version
             \/ pool.jobs[v].started # pool.jobs[w].started ) =>
            pool.jobs[v].log_path # pool.jobs[w].log_path

\* C30: the log file name holds no "/" and no ":", whatever the model name
\* and the version hold, and the path is the log directory's direct child of
\* that name.
C30_LogNameIsSafe ==
    \A w \in Workers :
        Allocated(w) =>
            /\ pool.jobs[w].log_path.parent = BUILD_LOG_DIR
            /\ \A i \in DOMAIN pool.jobs[w].log_path.name :
                   pool.jobs[w].log_path.name[i] \notin {Ch("/"), Ch(":")}
            /\ pool.jobs[w].log_path.name # <<>>
            /\ pool.jobs[w].log_path.name[Len(pool.jobs[w].log_path.name)] = Ch(".log")

\* A log path allocated for a version that holds "/" and ":".
C30_Witness ==
    \E w \in Workers :
        /\ Allocated(w)
        /\ Contains(pool.jobs[w].args.version, Lit(<<"/">>))
        /\ Contains(pool.jobs[w].args.version, Lit(<<":">>))
        /\ Contains(pool.jobs[w].log_path.name, Lit(<<"p", "_", "1", "_", "2", "_">>))

-----------------------------------------------------------------------------
(* The trace a failed job leaves, under SpecJob *)

\* C31: a job that has ended with an error has written to its log file or to
\* the process logs at least once before it ended.
C31_FailureLeavesTrace ==
    (JobDone /\ Raised(job.result) /\ IsInstance(job.result, "Exception")) =>
        (job.log_file.content # <<>> \/ job.logged # <<>>)

-----------------------------------------------------------------------------
(* A request delivered again, under SpecReplay *)

\* C33: a correctly signed build-triggering request delivered again unchanged
\* while its timestamp is within the maximum age is accepted each time, and
\* each delivery schedules a build job of its own for the same model and
\* version.
C33_RedeliveryBuildsAgain ==
    \A i, j \in DOMAIN call.deliveries :
        ( /\ i < j
          /\ call.request.body \in {JsonText(CreatedDoc), JsonText(AliasCreatedDoc)}
          /\ Authentic(call.request, call.deliveries[i].at)
          /\ Authentic(call.request, call.deliveries[j].at) ) =>
            /\ call.deliveries[i].resp = Submitted
            /\ call.deliveries[j].resp = Submitted
            /\ call.deliveries[i].scheduled = 1
            /\ call.deliveries[j].scheduled = 1
            /\ Len(tasks) >= j
            /\ tasks[j].model_name = tasks[i].model_name
            /\ tasks[j].version = tasks[i].version

====
